---------------------------- MODULE Spec2Model ----------------------------
(***************************************************************************)
(* A model of serde_device_tree's decoder (src/src/de.rs, src/src/error.rs):*)
(* header validation in from_raw, the tag tokenizer Tags, the Peekable      *)
(* wrapper held by Deserializer, the decoding hooks and the MapVisitor.     *)
(*                                                                          *)
(* Representation choices                                                   *)
(*  - memory is bytes: hdr is the 40 header bytes, data the bytes after it. *)
(*  - a u32 is a record [hi, lo] of two 16-bit halves, so that the full     *)
(*    32-bit range and its wrap-around are represented exactly.             *)
(*  - usize is 64 bits wide.  Every usize the model computes is far below   *)
(*    2^31 except a wrapped subtraction, which is kept as its (negative)    *)
(*    representative modulo 2^64.                                           *)
(*  - integer overflow panics when the build has overflow checks and wraps  *)
(*    otherwise; ovf is the build's choice.                                 *)
(*  - a Rust panic (index out of bounds, panic!, todo!, unreachable!,       *)
(*    overflow check) aborts the call: result.kind = "Panic".               *)
(***************************************************************************)
EXTENDS Integers, Sequences, FiniteSets, TLC

VARIABLES
    hdr,      \* the 40 bytes at ptr (the Header)
    data,     \* the bytes following the header (DeviceTree.data)
    place,    \* [buf, local]: address of the buffer, address of the local `header`
    ovf,      \* TRUE: the build checks integer overflow (panics); FALSE: it wraps
    pc,       \* "from_raw" | "deserialize" | "visit_map" | "done"
    result,   \* what from_raw returned: [kind |-> "None" | "Ok" | "Err" | "Panic"]
    tags,     \* the Tags iterator: slices (as offsets into data) and cur
    peeked,   \* Peekable's cache: [has |-> FALSE] or [has |-> TRUE, item |-> ...]
    stack,    \* the deserialize_map calls in progress (consumer inside visit_map)
    taken,    \* history: the kinds of the items taken out of the Peekable so far
    steps,    \* history: number of calls of Tags::next so far
    last      \* history: the last operation and its outcome

vars == <<hdr, data, place, ovf, pc, result, tags, peeked, stack, taken, steps, last>>

----------------------------------------------------------------------------
(* Bounds of the model *)

\* number of 4-byte words of a structure block drawn for the tokenizer
MaxWords == 4
\* number of Tags::next calls followed on one blob by the tokenizer specification
MaxSteps == 4
\* number of encoded items of a structure block drawn for the deserializer
MaxItems == 4
\* number of nested nodes of the nested blobs
MaxNest == 3

\* most key/value pairs a consumer decodes out of one map
MaxPairs == 2

----------------------------------------------------------------------------
(* The(S) is the element of a one-element set.  The({e : x \in {v}}) is e    *)
(* with x bound to the value of v, computed once: it stands for a `let`.     *)

The(S) == CHOOSE x \in S : TRUE

----------------------------------------------------------------------------
(* u32 arithmetic *)

U32(h, l) == [hi |-> h, lo |-> l]

U32Of(n) == [hi |-> n \div 65536, lo |-> n % 65536]

FromBe(b, off) ==
    [hi |-> b[off + 1] * 256 + b[off + 2], lo |-> b[off + 3] * 256 + b[off + 4]]

\* the big-endian bytes of a u32 (how a blob stores it)
BeBytes(u) == <<u.hi \div 256, u.hi % 256, u.lo \div 256, u.lo % 256>>

LtU32(a, b) == a.hi < b.hi \/ (a.hi = b.hi /\ a.lo < b.lo)

GtU32(a, b) == LtU32(b, a)

\* a + b on u32: the wrapped value and whether it overflowed
AddU32(a, b) ==
    LET l == a.lo + b.lo
        h == a.hi + b.hi + (l \div 65536)
    IN  [val |-> [hi |-> h % 65536, lo |-> l % 65536], over |-> h >= 65536]

\* a - b on u32 for a >= b
SubU32(a, b) ==
    LET borrow == IF a.lo < b.lo THEN 1 ELSE 0
    IN  [hi |-> a.hi - b.hi - borrow, lo |-> a.lo + 65536 * borrow - b.lo]

\* `x as usize` for a u32 below 2^31
ToUsize(u) == u.hi * 65536 + u.lo

----------------------------------------------------------------------------
(* Constants of de.rs *)

DEVICE_TREE_MAGIC == [hi |-> 53261, lo |-> 65261]   \* 0xD00D_FEED

FDT_BEGIN_NODE == 1
FDT_END_NODE == 2
FDT_PROP == 3
FDT_NOP == 4
FDT_END == 9

SUPPORTED_VERSION == 17

\* size_of::<Header>(): ten u32 fields, repr(C)
HEADER_LEN == 40

\* byte offsets of the Header's fields (repr(C), declaration order)
OffMagic == 0
OffTotalSize == 4
OffOffDtStruct == 8
OffOffDtStrings == 12
OffLastCompVersion == 24
OffSizeDtStrings == 32
OffSizeDtStruct == 36

----------------------------------------------------------------------------
(* Errors (error.rs) and outcomes *)

Typed(et, fi) == [kind |-> "Err", error_type |-> et, file_index |-> fi]

Panic == [kind |-> "Panic"]

invalid_magic(m, fi) == Typed([tag |-> "InvalidMagic", wrong_magic |-> m], fi)

incompatible_version(v, s, fi) ==
    Typed([tag |-> "IncompatibleVersion", last_comp_version |-> v,
           library_supported_version |-> s], fi)

header_too_short(l, a, fi) ==
    Typed([tag |-> "HeaderTooShort", header_length |-> l, at_least_length |-> a], fi)

structure_index_underflow(b, a, fi) ==
    Typed([tag |-> "StructureIndex", current_index |-> b, bound_index |-> a,
           structure_or_string |-> TRUE, overflow_or_underflow |-> FALSE], fi)

structure_index_overflow(e, a, fi) ==
    Typed([tag |-> "StructureIndex", current_index |-> e, bound_index |-> a,
           structure_or_string |-> TRUE, overflow_or_underflow |-> TRUE], fi)

string_index_underflow(b, a, fi) ==
    Typed([tag |-> "StructureIndex", current_index |-> b, bound_index |-> a,
           structure_or_string |-> FALSE, overflow_or_underflow |-> FALSE], fi)

string_index_overflow(e, a, fi) ==
    Typed([tag |-> "StructureIndex", current_index |-> e, bound_index |-> a,
           structure_or_string |-> FALSE, overflow_or_underflow |-> TRUE], fi)

string_eof_unpexpected(fi) == Typed([tag |-> "StringEofUnexpected"], fi)

slice_eof_unpexpected(e, r, fi) ==
    Typed([tag |-> "SliceEofUnexpected", expected_length |-> e,
           remaining_length |-> r], fi)

table_string_offset(g, b, fi) ==
    Typed([tag |-> "TableStringOffset", given_offset |-> g, bound_offset |-> b], fi)

tag_eof_unexpected(c, b, fi) ==
    Typed([tag |-> "TagEofUnexpected", current_index |-> c, bound_index |-> b], fi)

invalid_tag_id(w, fi) == Typed([tag |-> "InvalidTagId", wrong_id |-> w], fi)

invalid_serde_type_length(e, fi) ==
    Typed([tag |-> "InvalidSerdeTypeLength", expected_length |-> e], fi)

expected_struct_begin == Typed([tag |-> "ExpectStructBegin"], 0)

expected_struct_end == Typed([tag |-> "ExpectStructEnd"], 0)

no_remaining_tags == Typed([tag |-> "NoRemainingTags"], 0)

\* Error::Custom, raised by the consumer's side of the serde protocol
Custom == [kind |-> "Err", error_type |-> [tag |-> "Custom"], file_index |-> 0]


----------------------------------------------------------------------------
(* from_raw: header validation (de.rs 5-70) and DeviceTree::tags (116-127) *)

\* (&header.<field> as usize) - (&header as usize): `header` is a local of type
\* &Header, so &header is the address of that local, not of the buffer
FieldIndex(pl, off) == (pl.buf + off) - pl.local

\* the usize subtraction above underflows when the local lies above the field
IndexChecked(pl, ov, off, e) ==
    IF ov /\ FieldIndex(pl, off) < 0 THEN Panic ELSE e

\* &self.data[addr .. addr + len] is in bounds of a slice of n bytes (n < 2^16)
InData(addr, len, n) == addr.hi = 0 /\ len.hi = 0 /\ addr.lo + len.lo <= n

DeviceTreeTags(h, n) ==
    LET structure_addr == SubU32(FromBe(h, OffOffDtStruct), U32Of(HEADER_LEN))
        structure_len == FromBe(h, OffSizeDtStruct)
        strings_addr == SubU32(FromBe(h, OffOffDtStrings), U32Of(HEADER_LEN))
        strings_len == FromBe(h, OffSizeDtStrings)
    IN  IF InData(structure_addr, structure_len, n) /\ InData(strings_addr, strings_len, n)
        THEN [kind |-> "Accept",
              tags |-> [structure_addr |-> ToUsize(structure_addr),
                        structure_len |-> ToUsize(structure_len),
                        strings_addr |-> ToUsize(strings_addr),
                        strings_len |-> ToUsize(strings_len),
                        cur |-> 0,
                        offset_from_file_begin |-> ToUsize(structure_addr)]]
        ELSE Panic

\* off_dt_struct + size_dt_struct > total_size, on u32
StructOverflowCheck(off_dt_struct, size_dt_struct, total_size) ==
    LET s == AddU32(off_dt_struct, size_dt_struct)
    IN  [val |-> s.val, over |-> s.over, bad |-> GtU32(s.val, total_size)]

\* off_dt_struct + size_dt_strings > total_size, on u32 (line 62)
StringOverflowCheck(off_dt_struct, size_dt_strings, total_size) ==
    LET s == AddU32(off_dt_struct, size_dt_strings)
    IN  [val |-> s.val, over |-> s.over, bad |-> GtU32(s.val, total_size)]

FromRawHeader(h, pl, ov) ==
    LET magic == FromBe(h, OffMagic)
        last_comp_version == FromBe(h, OffLastCompVersion)
        total_size == FromBe(h, OffTotalSize)
        off_dt_struct == FromBe(h, OffOffDtStruct)
        size_dt_struct == FromBe(h, OffSizeDtStruct)
        off_dt_strings == FromBe(h, OffOffDtStrings)
        size_dt_strings == FromBe(h, OffSizeDtStrings)
        c5 == StructOverflowCheck(off_dt_struct, size_dt_struct, total_size)
        c7 == StringOverflowCheck(off_dt_struct, size_dt_strings, total_size)
    IN  IF magic # DEVICE_TREE_MAGIC
        THEN IndexChecked(pl, ov, OffMagic, invalid_magic(magic, FieldIndex(pl, OffMagic)))
        ELSE IF GtU32(last_comp_version, U32Of(SUPPORTED_VERSION))
        THEN IndexChecked(pl, ov, OffLastCompVersion,
                 incompatible_version(last_comp_version, U32Of(SUPPORTED_VERSION),
                                      FieldIndex(pl, OffLastCompVersion)))
        ELSE IF LtU32(total_size, U32Of(HEADER_LEN))
        THEN IndexChecked(pl, ov, OffTotalSize,
                 header_too_short(total_size, U32Of(HEADER_LEN),
                                  FieldIndex(pl, OffTotalSize)))
        ELSE IF LtU32(off_dt_struct, U32Of(HEADER_LEN))
        THEN IndexChecked(pl, ov, OffOffDtStruct,
                 structure_index_underflow(off_dt_struct, U32Of(HEADER_LEN),
                                           FieldIndex(pl, OffOffDtStruct)))
        ELSE IF c5.over /\ ov
        THEN Panic
        ELSE IF c5.bad
        THEN IndexChecked(pl, ov, OffSizeDtStruct,
                 structure_index_overflow(c5.val, U32Of(HEADER_LEN),
                                          FieldIndex(pl, OffSizeDtStruct)))
        ELSE IF LtU32(off_dt_strings, U32Of(HEADER_LEN))
        THEN IndexChecked(pl, ov, OffOffDtStrings,
                 string_index_underflow(off_dt_strings, U32Of(HEADER_LEN),
                                        FieldIndex(pl, OffOffDtStrings)))
        ELSE IF c7.over /\ ov
        THEN Panic
        ELSE IF c7.bad
        THEN IndexChecked(pl, ov, OffSizeDtStrings,
                 string_index_overflow(off_dt_strings, U32Of(HEADER_LEN),
                                       FieldIndex(pl, OffSizeDtStrings)))
        ELSE DeviceTreeTags(h, ToUsize(SubU32(total_size, U32Of(HEADER_LEN))))

----------------------------------------------------------------------------
(* Tags: the tokenizer (de.rs 130-261) *)

\* the structure slice and the string-table slice of a Tags value
Structure(t, d) == SubSeq(d, t.structure_addr + 1, t.structure_addr + t.structure_len)

StringTable(t, d) == SubSeq(d, t.strings_addr + 1, t.strings_addr + t.strings_len)

\* mutant: no padding is skipped
AlignUpMutant(val) == val

align_up_u32(val) == val + ((4 - (val % 4)) % 4)

\* Tags::file_index
FileIndex(cur, off) == cur + off

\* Tags::read_cur_u32: indexing past the slice panics
ReadCurU32(s, cur) ==
    IF cur + 3 < Len(s)
    THEN [ok |-> TRUE, val |-> FromBe(s, cur), cur |-> cur + 4]
    ELSE [ok |-> FALSE]

\* the first index >= i that holds a NUL byte, or where the scan ran off b
RECURSIVE ScanNul(_, _)
ScanNul(b, i) ==
    IF i >= Len(b) THEN i
    ELSE IF b[i + 1] = 0 THEN i
    ELSE ScanNul(b, i + 1)

\* Tags::read_string0_align
ReadString0Align(s, cur, off) ==
    The({ IF end < Len(s)
          THEN [ok |-> TRUE, slice |-> SubSeq(s, cur + 1, end),
                cur |-> align_up_u32(end + 1)]
          ELSE [ok |-> FALSE, err |-> string_eof_unpexpected(FileIndex(end, off)),
                cur |-> end] :
          end \in {ScanNul(s, cur)} })

\* mutant: the remaining length reported is the length of the whole slice
ReadSliceAlignMutant(s, cur, len, off) ==
    LET end == cur + ToUsize(len)
    IN  IF end > Len(s)
        THEN [ok |-> FALSE,
              err |-> slice_eof_unpexpected(len, Len(s), FileIndex(cur, off)),
              cur |-> cur]
        ELSE [ok |-> TRUE, slice |-> SubSeq(s, cur + 1, end), cur |-> align_up_u32(end)]

\* Tags::read_slice_align
ReadSliceAlign(s, cur, len, off) ==
    LET end == cur + ToUsize(len)
    IN  IF end > Len(s)
        THEN [ok |-> FALSE,
              err |-> slice_eof_unpexpected(len, Len(s) - cur, FileIndex(cur, off)),
              cur |-> cur]
        ELSE [ok |-> TRUE, slice |-> SubSeq(s, cur + 1, end), cur |-> align_up_u32(end)]

\* mutant: a name that runs off the string table is returned as it is
ReadTableStringMutant(st, p, cur, off) ==
    LET begin == ToUsize(p)
        end == ScanNul(st, begin)
    IN  IF begin >= Len(st)
        THEN [ok |-> FALSE, err |-> table_string_offset(p, Len(st), FileIndex(cur, off))]
        ELSE [ok |-> TRUE, slice |-> SubSeq(st, begin + 1, end)]

\* Tags::read_table_string; cur is the tokenizer's cursor, used for file_index only
ReadTableString(st, p, cur, off) ==
    LET begin == ToUsize(p)
        end == ScanNul(st, begin)
    IN  IF begin >= Len(st)
        THEN [ok |-> FALSE, err |-> table_string_offset(p, Len(st), FileIndex(cur, off))]
        ELSE IF end < Len(st)
        THEN [ok |-> TRUE, slice |-> SubSeq(st, begin + 1, end)]
        ELSE [ok |-> FALSE, err |-> table_string_offset(p, end, FileIndex(cur, off))]

\* the FDT_PROP arm of Tags::next, after the tag id was read at cur - 4
TagsPropValue(s, st, val_size, name_offset, cur, off) ==
    The({ IF ~val.ok THEN [cur |-> val.cur, item |-> val.err]
          ELSE The({ IF ~name.ok THEN [cur |-> val.cur, item |-> name.err]
                     ELSE [cur |-> val.cur,
                           item |-> [kind |-> "Prop", value |-> val.slice,
                                     name |-> name.slice,
                                     index |-> FileIndex(val.cur, off)]] :
                     name \in {ReadTableString(st, name_offset, val.cur, off)} }) :
          val \in {ReadSliceAlign(s, cur, val_size, off)} })

TagsProp(s, st, cur, off) ==
    The({ IF ~a.ok THEN [cur |-> cur, item |-> Panic]
          ELSE The({ IF ~b.ok THEN [cur |-> a.cur, item |-> Panic]
                     ELSE TagsPropValue(s, st, a.val, b.val, b.cur, off) :
                     b \in {ReadCurU32(s, a.cur)} }) :
          a \in {ReadCurU32(s, cur)} })

\* the FDT_BEGIN_NODE arm of Tags::next, after the tag id was read at cur - 4
TagsBegin(s, cur, off) ==
    The({ IF n.ok
          THEN [cur |-> n.cur,
                item |-> [kind |-> "Begin", name |-> n.slice,
                          index |-> FileIndex(n.cur, off)]]
          ELSE [cur |-> n.cur, item |-> n.err] :
          n \in {ReadString0Align(s, cur, off)} })

\* the FDT_NOP arm: `self.cur += 4`, after read_cur_u32 already moved past the id
NopAdvance(cur) == cur + 4

\* the loop of Tags::next
RECURSIVE TagsLoop(_, _, _, _)
TagsLoop(s, st, cur, off) ==
    The({ IF ~r.ok THEN [cur |-> cur, item |-> Panic]
          ELSE IF r.val = U32Of(FDT_BEGIN_NODE) THEN TagsBegin(s, r.cur, off)
          ELSE IF r.val = U32Of(FDT_PROP) THEN TagsProp(s, st, r.cur, off)
          ELSE IF r.val = U32Of(FDT_END_NODE)
          THEN [cur |-> r.cur, item |-> [kind |-> "End", index |-> FileIndex(r.cur, off)]]
          ELSE IF r.val = U32Of(FDT_NOP) THEN TagsLoop(s, st, NopAdvance(r.cur), off)
          ELSE IF r.val = U32Of(FDT_END) THEN [cur |-> r.cur, item |-> [kind |-> "None"]]
          ELSE [cur |-> r.cur, item |-> invalid_tag_id(r.val, FileIndex(r.cur, off))] :
          r \in {ReadCurU32(s, cur)} })

\* Tags::next on the slices s (structure) and st (string table).  For
\* Len(s) < 4 the usize subtraction Len(s) - 4 underflows: a panic under
\* overflow checks, otherwise a value near 2^64 that no cursor exceeds.
TagsNextOn(s, st, cur, off, ov) ==
    IF Len(s) < 4
    THEN IF ov THEN [cur |-> cur, item |-> Panic] ELSE TagsLoop(s, st, cur, off)
    ELSE IF cur > Len(s) - 4
    THEN [cur |-> cur, item |-> tag_eof_unexpected(cur, Len(s), FileIndex(cur, off))]
    ELSE TagsLoop(s, st, cur, off)

\* Tags::next on a Tags value t over the data d: the new Tags and the item
TagsNext(t, d, ov) ==
    The({ [tags |-> [t EXCEPT !.cur = r.cur], item |-> r.item] :
          r \in {The({ TagsNextOn(s, st, t.cur, t.offset_from_file_begin, ov) :
                       s \in {Structure(t, d)}, st \in {StringTable(t, d)} })} })

IsToken(i) == i.kind \in {"Begin", "Prop", "End"}

----------------------------------------------------------------------------
(* Deserializer: the Peekable over Tags (de.rs 270-300).  A deserializer     *)
(* value d is [tags, peeked, taken, steps]; taken lists what has been taken  *)
(* out of the Peekable (history), steps counts the calls of Tags::next.      *)

\* how an item is listed in the history
KindOf(i) == IF i.kind = "Err" THEN i.error_type.tag ELSE i.kind

\* Peekable::peek: fill the cache from the iterator if it is empty
PeekD(d) ==
    IF d.peeked.has THEN [d |-> d, item |-> d.peeked.item]
    ELSE The({ [d |-> [d EXCEPT !.tags = r.tags,
                                !.peeked = [has |-> TRUE, item |-> r.item],
                                !.steps = @ + 1],
                item |-> r.item] :
               r \in {TagsNext(d.tags, data, ovf)} })

\* Peekable::next: take the cached item, else ask the iterator
NextD(d) ==
    IF d.peeked.has
    THEN [d |-> [d EXCEPT !.peeked = [has |-> FALSE],
                          !.taken = Append(@, KindOf(d.peeked.item))],
          item |-> d.peeked.item]
    ELSE The({ [d |-> [d EXCEPT !.tags = r.tags,
                                !.taken = Append(@, KindOf(r.item)),
                                !.steps = @ + 1],
                item |-> r.item] :
               r \in {TagsNext(d.tags, data, ovf)} })

\* mutant: next_tag takes an error for the end of the sequence
NextTagMutant(d) ==
    The({ IF n.item.kind = "Err" THEN [d |-> n.d, item |-> [kind |-> "None"]] ELSE n :
          n \in {NextD(d)} })

\* Deserializer::next_tag: the item is a token, "None", an error or a panic
NextTag(d) == NextD(d)

\* mutant: peeking takes the token out of the Peekable
PeekTagMutant(d) == NextD(d)

\* Deserializer::peek_tag and peek_tag_index
PeekTag(d) == PeekD(d)

\* Deserializer::eat_tag
EatTag(d) ==
    The({ [d |-> n.d,
           out |-> IF n.item.kind \in {"Err", "Panic"} THEN n.item ELSE [kind |-> "Ok"]] :
          n \in {NextD(d)} })

----------------------------------------------------------------------------
(* The decoding hooks (de.rs 302-633).  Each returns the deserializer after  *)
(* the call, the outcome (out) and the value handed to the visitor           *)
(* (visited).  accept is the visitor's answer: it takes the value, or        *)
(* returns an error of its own (Error::Custom).                              *)

Ok(v) == [kind |-> "Ok", value |-> v]

NotVisited == [type |-> "none"]

Ret(d, out, visited) == [d |-> d, out |-> out, visited |-> visited]

Visit(accept, v) == IF accept THEN Ok(v) ELSE Custom

\* the values handed to visitors
BoolValue == [type |-> "bool", v |-> TRUE]

\* mutant: the 4 value bytes taken in little-endian order
U32ValueMutant(b) ==
    [type |-> "u32", v |-> [hi |-> b[4] * 256 + b[3], lo |-> b[2] * 256 + b[1]]]

\* u32::from_be_bytes of the 4 value bytes
U32Value(b) == [type |-> "u32", v |-> FromBe(b, 0)]

StrValue(b) == [type |-> "str", v |-> b]

BytesValue(b) == [type |-> "bytes", v |-> b]

\* core::str::from_utf8 on bytes below 0x80 (the blobs hold no others)
Utf8Ok(b) == \A i \in 1..Len(b) : b[i] < 128

DeserializeBool(d, accept) ==
    The({ IF p.item.kind \in {"Panic", "Err"} THEN Ret(p.d, p.item, NotVisited)
          ELSE IF p.item.kind = "Prop" /\ Len(p.item.value) = 0
          THEN Ret(EatTag(p.d).d, Visit(accept, BoolValue), BoolValue)
          ELSE Ret(p.d, Panic, NotVisited) :
          p \in {PeekTag(d)} })

DeserializeU32(d, accept) ==
    The({ IF p.item.kind \in {"Panic", "Err"} THEN Ret(p.d, p.item, NotVisited)
          ELSE IF p.item.kind = "Prop"
          THEN IF Len(p.item.value) # 4
               THEN Ret(p.d, invalid_serde_type_length(4, p.item.index), NotVisited)
               ELSE Ret(EatTag(p.d).d, Visit(accept, U32Value(p.item.value)),
                        U32Value(p.item.value))
          ELSE Ret(p.d, Panic, NotVisited) :
          p \in {PeekTag(d)} })

DeserializeStr(d, accept) ==
    The({ IF p.item.kind \in {"Panic", "Err"} THEN Ret(p.d, p.item, NotVisited)
          ELSE IF p.item.kind = "Prop"
          THEN IF ~Utf8Ok(p.item.value)
               THEN Ret(p.d, Typed([tag |-> "Utf8"], p.item.index), NotVisited)
               ELSE IF accept
               THEN Ret(EatTag(p.d).d, Ok(StrValue(p.item.value)), StrValue(p.item.value))
               ELSE Ret(p.d, Custom, StrValue(p.item.value))
          ELSE Ret(p.d, Panic, NotVisited) :
          p \in {PeekTag(d)} })

DeserializeBytes(d, accept) ==
    The({ IF p.item.kind \in {"Panic", "Err"} THEN Ret(p.d, p.item, NotVisited)
          ELSE IF p.item.kind = "Prop"
          THEN IF accept
               THEN Ret(EatTag(p.d).d, Ok(BytesValue(p.item.value)),
                        BytesValue(p.item.value))
               ELSE Ret(p.d, Custom, BytesValue(p.item.value))
          ELSE Ret(p.d, Panic, NotVisited) :
          p \in {PeekTag(d)} })

\* deserialize_map up to the call of visitor.visit_map: out "Enter" says the
\* Begin was taken and the consumer's visit_map runs next
DeserializeMapBegin(d) ==
    The({ IF n.item.kind \in {"Panic", "Err"} THEN Ret(n.d, n.item, NotVisited)
          ELSE IF n.item.kind = "Begin" THEN Ret(n.d, [kind |-> "Enter"], NotVisited)
          ELSE Ret(n.d, expected_struct_begin, NotVisited) :
          n \in {NextTag(d)} })

\* mutant: the token after visit_map is taken but not compared with End
DeserializeMapEndMutant(d, ret) ==
    The({ IF n.item.kind \in {"Panic", "Err"} THEN Ret(n.d, n.item, NotVisited)
          ELSE Ret(n.d, Ok(ret), NotVisited) :
          n \in {NextD(d)} })

\* deserialize_map after visit_map returned Ok(ret)
DeserializeMapEnd(d, ret) ==
    The({ IF n.item.kind \in {"Panic", "Err"} THEN Ret(n.d, n.item, NotVisited)
          ELSE IF n.item.kind = "End" THEN Ret(n.d, Ok(ret), NotVisited)
          ELSE Ret(n.d, expected_struct_end, NotVisited) :
          n \in {NextTag(d)} })

\* the slice deserialize_any measures: `Tag::Prop(_, value_slice)` binds the
\* second field of Tag::Prop(value, name)
AnyMeasured(item) == item.name

DeserializeAny(d, accept) ==
    The({ IF p.item.kind \in {"Panic", "Err"} THEN Ret(p.d, p.item, NotVisited)
          ELSE IF p.item.kind = "Prop"
          THEN IF Len(AnyMeasured(p.item)) = 0 THEN DeserializeBool(p.d, accept)
               ELSE IF Len(AnyMeasured(p.item)) = 4 THEN DeserializeU32(p.d, accept)
               ELSE DeserializeBytes(p.d, accept)
          ELSE IF p.item.kind = "Begin" THEN DeserializeMapBegin(p.d)
          ELSE Ret(p.d, Panic, NotVisited) :
          p \in {PeekTag(d)} })

DeserializeIdentifier(d, accept) ==
    The({ IF p.item.kind \in {"Panic", "Err"} THEN Ret(p.d, p.item, NotVisited)
          ELSE IF p.item.kind = "Begin"
          THEN IF ~Utf8Ok(p.item.name)
               THEN Ret(p.d, Typed([tag |-> "Utf8"], p.item.index), NotVisited)
               ELSE Ret(p.d, Visit(accept, StrValue(p.item.name)), StrValue(p.item.name))
          ELSE Ret(p.d, Panic, NotVisited) :
          p \in {PeekTag(d)} })

\* mutant: the skip loop stops at the first End
SkipDepthMutant(depth) == 0

\* the depth the skip loop is at after a nested Begin
SkipDepth(depth) == depth + 1

\* the while-let loop of deserialize_ignored_any (613-625)
RECURSIVE SkipLoop(_, _)
SkipLoop(d, depth) ==
    The({ IF n.item.kind \in {"Panic", "Err"} THEN [d |-> n.d, out |-> n.item]
          ELSE IF n.item.kind = "None" THEN [d |-> n.d, out |-> [kind |-> "Ok"]]
          ELSE IF n.item.kind = "Begin" THEN SkipLoop(n.d, SkipDepth(depth))
          ELSE IF n.item.kind = "End"
          THEN IF depth = 0 THEN [d |-> n.d, out |-> [kind |-> "Ok"]]
               ELSE SkipLoop(n.d, depth - 1)
          ELSE SkipLoop(n.d, depth) :
          n \in {NextTag(d)} })

Unit == [type |-> "unit"]

DeserializeIgnoredAny(d, accept) ==
    The({ IF p.item.kind \in {"Panic", "Err"} THEN Ret(p.d, p.item, NotVisited)
          ELSE IF p.item.kind = "Begin"
          THEN The({ IF r.out.kind = "Ok" THEN Ret(r.d, Visit(accept, Unit), Unit)
                     ELSE Ret(r.d, r.out, NotVisited) :
                     r \in {SkipLoop(EatTag(p.d).d, 0)} })
          ELSE IF p.item.kind = "End" THEN Ret(p.d, Panic, NotVisited)
          ELSE IF p.item.kind = "Prop"
          THEN Ret(EatTag(p.d).d, Visit(accept, Unit), Unit)
          ELSE Ret(p.d, Visit(accept, Unit), Unit) :
          p \in {PeekTag(d)} })

\* the hooks whose body is todo!() (i8 ... enum)
DeserializeUnimplemented(d) == Ret(d, Panic, NotVisited)

Hooks == {"any", "bool", "u32", "str", "bytes", "map", "struct", "identifier",
          "ignored_any", "unimplemented"}

\* the consumer calls hook h of the Deserializer
CallHook(d, h, accept) ==
    CASE h = "any" -> DeserializeAny(d, accept)
      [] h = "bool" -> DeserializeBool(d, accept)
      [] h = "u32" -> DeserializeU32(d, accept)
      [] h = "str" -> DeserializeStr(d, accept)
      [] h = "bytes" -> DeserializeBytes(d, accept)
      [] h \in {"map", "struct"} -> DeserializeMapBegin(d)
      [] h = "identifier" -> DeserializeIdentifier(d, accept)
      [] h = "ignored_any" -> DeserializeIgnoredAny(d, accept)
      [] OTHER -> DeserializeUnimplemented(d)

----------------------------------------------------------------------------
(* The blobs the specifications start from *)

\* a header as it lies in memory: ten big-endian u32 fields
MkHeader(magic, total_size, off_dt_struct, off_dt_strings, last_comp_version, size_dt_strings, size_dt_struct) ==
    BeBytes(magic) \o BeBytes(total_size) \o BeBytes(off_dt_struct)
    \o BeBytes(off_dt_strings) \o BeBytes(U32Of(HEADER_LEN)) \o BeBytes(U32Of(SUPPORTED_VERSION))
    \o BeBytes(last_comp_version) \o BeBytes(U32Of(0))
    \o BeBytes(size_dt_strings) \o BeBytes(size_dt_struct)

\* a well-formed blob: header, structure block s, string table st
ValidBlob(s, st) ==
    [hdr |-> MkHeader(DEVICE_TREE_MAGIC, U32Of(HEADER_LEN + Len(s) + Len(st)),
                      U32Of(HEADER_LEN), U32Of(HEADER_LEN + Len(s)),
                      U32Of(SUPPORTED_VERSION - 1), U32Of(Len(st)), U32Of(Len(s))),
     data |-> s \o st]

\* n bytes of END_NODE words, the memory behind a header under test
Fill(n) == [i \in 1..n |-> IF i % 4 = 0 THEN FDT_END_NODE ELSE 0]

MagicVals == {DEVICE_TREE_MAGIC, U32(60926, 3536), U32Of(0)}

VersionVals == {U32Of(SUPPORTED_VERSION - 1), U32Of(SUPPORTED_VERSION),
                U32Of(SUPPORTED_VERSION + 1)}

TotalVals == {U32Of(HEADER_LEN - 1), U32Of(HEADER_LEN), U32Of(HEADER_LEN + 16),
              U32Of(HEADER_LEN + 32)}

OffsetVals == {U32Of(HEADER_LEN - 4), U32Of(HEADER_LEN), U32Of(HEADER_LEN + 16),
               U32(65535, 65520)}

SizeVals == {U32Of(0), U32Of(16), U32Of(32)}

\* the memory a header with this total_size is given: total_size - 40 bytes
DataFor(total_size) ==
    IF LtU32(total_size, U32Of(HEADER_LEN)) THEN <<>>
    ELSE Fill(ToUsize(total_size) - HEADER_LEN)

HeaderBlobs ==
    { [hdr |-> MkHeader(m, t, os, ot, v, zt, zs), data |-> DataFor(t)] :
        m \in MagicVals, t \in TotalVals, os \in OffsetVals, ot \in OffsetVals,
        v \in VersionVals, zt \in SizeVals, zs \in SizeVals }

\* where the buffer and the local variable `header` may lie
Places == {[buf |-> 4096, local |-> 8192], [buf |-> 8192, local |-> 4096],
           [buf |-> 4096, local |-> 4088]}

\* the 4-byte words structure blocks are drawn from: the tag ids (which also
\* serve as lengths and name offsets), a zero word, and the name "a" padded
Words == {BeBytes(U32Of(n)) : n \in {0, FDT_BEGIN_NODE, FDT_END_NODE, FDT_PROP,
                                      FDT_NOP, FDT_END}} \cup {<<97, 0, 0, 0>>}

\* a last, incomplete word
Tails == {<<>>, <<97>>, <<0, 0>>, <<0, 0, 0>>}

RECURSIVE WordSeqs(_)
WordSeqs(n) ==
    IF n = 0 THEN {<<>>}
    ELSE LET shorter == WordSeqs(n - 1)
         IN  shorter \cup {s \o w : s \in shorter, w \in Words}

StringTables == {<<97, 0>>, <<97>>}

StructBlobs ==
    {ValidBlob(s \o t, st) : s \in WordSeqs(MaxWords), t \in Tails, st \in StringTables}

NoTags == [structure_addr |-> 0, structure_len |-> 0, strings_addr |-> 0,
           strings_len |-> 0, cur |-> 0, offset_from_file_begin |-> 0]

NoResult == [kind |-> "None"]

InitWith(blobs, places) ==
    /\ \E b \in blobs : hdr = b.hdr /\ data = b.data
    /\ place \in places
    /\ ovf \in BOOLEAN
    /\ pc = "from_raw"
    /\ result = NoResult
    /\ tags = NoTags
    /\ peeked = [has |-> FALSE]
    /\ stack = <<>>
    /\ taken = <<>>
    /\ steps = 0
    /\ last = [op |-> "init"]

----------------------------------------------------------------------------
(* Actions *)

\* from_raw up to T::deserialize: validate the header, build the Tags
FromRawStep ==
    /\ pc = "from_raw"
    /\ \E r \in {FromRawHeader(hdr, place, ovf)} :
           IF r.kind = "Accept"
           THEN /\ tags' = r.tags
                /\ pc' = "deserialize"
                /\ result' = result
           ELSE /\ tags' = tags
                /\ pc' = "done"
                /\ result' = r
    /\ last' = [op |-> "from_raw"]
    /\ UNCHANGED <<hdr, data, place, ovf, peeked, stack, taken, steps>>

\* one call of Tags::next, made directly on the iterator
TagsStep ==
    /\ pc = "deserialize"
    /\ steps < MaxSteps
    /\ \E r \in {TagsNext(tags, data, ovf)} :
           /\ tags' = r.tags
           /\ last' = [op |-> "next", from |-> tags.cur, item |-> r.item]
           /\ IF r.item.kind = "Panic"
              THEN pc' = "done" /\ result' = Panic
              ELSE pc' = pc /\ result' = result
    /\ steps' = steps + 1
    /\ UNCHANGED <<hdr, data, place, ovf, peeked, stack, taken>>

InitTags == InitWith(HeaderBlobs, Places) \/ InitWith(StructBlobs, {[buf |-> 4096, local |-> 8192]})

NextTags == FromRawStep \/ TagsStep

\* the header validator and the tokenizer, stepped directly
SpecTags == InitTags /\ [][NextTags]_vars

----------------------------------------------------------------------------
(* The deserializer driven by a consumer (T::deserialize and its visitors).  *)
(* The consumer is any caller of the serde protocol that returns an error    *)
(* it is handed unchanged (the `?` of every derived implementation): which   *)
(* hooks it calls, whether its visitors accept, and when visit_map returns   *)
(* are its free choices.                                                     *)

\* bytes padded with zeros to a multiple of 4
Pad(b) == b \o [i \in 1..(CHOOSE k \in 0..3 : (Len(b) + k) % 4 = 0) |-> 0]

EncBegin(name) == BeBytes(U32Of(FDT_BEGIN_NODE)) \o Pad(name \o <<0>>)

EncProp(value, nameoff) ==
    BeBytes(U32Of(FDT_PROP)) \o BeBytes(U32Of(Len(value))) \o BeBytes(U32Of(nameoff))
    \o Pad(value)

EncEnd == BeBytes(U32Of(FDT_END_NODE))

EncFin == BeBytes(U32Of(FDT_END))

\* the string table "a\0abcd\0": names "a" (offset 0), "" (1) and "abcd" (2)
NameTable == <<97, 0, 97, 98, 99, 100, 0>>

NameOffsets == {0, 1, 2}

PropValues == {<<>>, <<7>>, <<0, 0, 1, 2>>, <<1, 2, 3, 4, 5>>}

\* the encoded items token sequences are drawn from
Items == {EncBegin(<<>>), EncProp(<<0, 0, 1, 2>>, 0), EncEnd, EncFin}

RECURSIVE ItemSeqs(_)
ItemSeqs(n) ==
    IF n = 0 THEN {<<>>}
    ELSE LET shorter == ItemSeqs(n - 1)
         IN  shorter \cup {s \o i : s \in shorter, i \in Items}

RECURSIVE Rep(_, _)
Rep(b, k) == IF k = 0 THEN <<>> ELSE b \o Rep(b, k - 1)

\* k nested nodes around mid, followed by rest
Nested(k, mid, rest) == Rep(EncBegin(<<97>>), k) \o mid \o Rep(EncEnd, k) \o rest

NestedBlobs ==
    {ValidBlob(Nested(k, mid, rest), NameTable) :
        k \in 1..MaxNest,
        mid \in {<<>>, EncProp(<<>>, 1)},
        rest \in {<<>>, EncFin, EncEnd \o EncFin, EncProp(<<7>>, 0) \o EncEnd \o EncFin}}

\* one node holding one property, over every name and value length
PropBlobs ==
    {ValidBlob(EncBegin(<<>>) \o EncProp(v, o) \o EncEnd \o EncFin, NameTable) :
        v \in PropValues, o \in NameOffsets}

\* header + Begin("") + End + END(9)
MinimalBlob == ValidBlob(EncBegin(<<>>) \o EncEnd \o EncFin, <<>>)

DeBlobs ==
    {ValidBlob(s, NameTable) : s \in ItemSeqs(MaxItems)}
    \cup NestedBlobs \cup PropBlobs \cup {MinimalBlob}

\* the Deserializer of the current state
CurD == [tags |-> tags, peeked |-> peeked, taken |-> taken, steps |-> steps]

SetD(d) ==
    /\ tags' = d.tags
    /\ peeked' = d.peeked
    /\ taken' = d.taken
    /\ steps' = d.steps

\* a deserialize_map call whose visit_map is running: keyed says next_key_seed
\* returned a key not yet followed by a value, pairs counts the values decoded,
\* begin is the place of its Begin in the history, proto says the consumer has
\* called next_value_seed only right after a key so far
NewFrame(d, proto) ==
    [keyed |-> FALSE, pairs |-> 0, begin |-> Len(d.taken), proto |-> proto]

Top == stack[Len(stack)]

\* the value the consumer's visit_map built
MapValue(n) == [type |-> "map", pairs |-> n]

\* T::deserialize calls one hook of the Deserializer and returns its result
Deserialize ==
    /\ pc = "deserialize"
    /\ stack = <<>>
    /\ \E h \in Hooks, accept \in BOOLEAN :
         \E r \in {CallHook(CurD, h, accept)} :
             /\ SetD(r.d)
             /\ last' = [op |-> "hook", hook |-> h, at |-> Len(taken),
                         next |-> PeekD(CurD).item, out |-> r.out,
                         visited |-> r.visited, proto |-> TRUE]
             /\ IF r.out.kind = "Enter"
                THEN /\ pc' = "visit_map"
                     /\ stack' = <<NewFrame(r.d, TRUE)>>
                     /\ result' = result
                ELSE /\ pc' = "done"
                     /\ stack' = stack
                     /\ result' = r.out
    /\ UNCHANGED <<hdr, data, place, ovf>>

\* what next_key_seed returns on the peeked item: Some(key), None, or an error
NextKeyOut(item, accept) ==
    IF item.kind \in {"Panic", "Err"} THEN item
    ELSE IF item.kind \in {"Prop", "Begin"}
    THEN Visit(accept, [type |-> "key", v |-> item.name])
    ELSE IF item.kind = "End" THEN Ok([type |-> "nokey"])
    ELSE no_remaining_tags

\* what next_value_seed returns on the peeked item p, the seed calling hook h
NextValueOut(p, h, accept) ==
    IF p.item.kind \in {"Prop", "Begin"} THEN CallHook(p.d, h, accept)
    ELSE IF p.item.kind \in {"Err", "Panic"} THEN Ret(p.d, p.item, NotVisited)
    ELSE IF p.item.kind = "None" THEN Ret(p.d, no_remaining_tags, NotVisited)
    ELSE Ret(p.d, Panic, NotVisited)

\* MapVisitor::next_key_seed (648-662); the key seed decodes the name
NextKeySeed ==
    /\ pc = "visit_map"
    /\ \E accept \in BOOLEAN :
         \E p \in {PeekTag(CurD)} :
         \E out \in {NextKeyOut(p.item, accept)} :
             /\ SetD(p.d)
             /\ last' = [op |-> "next_key", at |-> Len(taken), next |-> p.item,
                         out |-> out]
             /\ IF out.kind = "Ok"
                THEN /\ pc' = pc
                     /\ result' = result
                     /\ stack' = [stack EXCEPT ![Len(stack)].keyed =
                                      (out.value.type = "key")]
                ELSE /\ pc' = "done"
                     /\ result' = out
                     /\ stack' = stack
    /\ UNCHANGED <<hdr, data, place, ovf>>

\* MapVisitor::next_value_seed (664-674); the value seed calls hook h
NextValueSeed ==
    /\ pc = "visit_map"
    /\ Top.pairs < MaxPairs
    /\ \E h \in Hooks, accept \in BOOLEAN :
         \E p \in {PeekTag(CurD)} :
         \E r \in {NextValueOut(p, h, accept)} :
         \E called \in {p.item.kind \in {"Prop", "Begin"}} :
         \E proto \in {Top.proto /\ Top.keyed} :
         \E here \in {[stack EXCEPT ![Len(stack)].proto = proto]} :
             /\ SetD(r.d)
             /\ last' = [op |-> "next_value", hook |-> IF called THEN h ELSE "-",
                         at |-> Len(taken), next |-> p.item, out |-> r.out,
                         visited |-> r.visited, proto |-> proto]
             /\ IF r.out.kind = "Enter"
                THEN /\ pc' = pc
                     /\ result' = result
                     /\ stack' = Append(here, NewFrame(r.d, proto))
                ELSE IF r.out.kind = "Ok"
                THEN /\ pc' = pc
                     /\ result' = result
                     /\ stack' = [here EXCEPT ![Len(stack)].keyed = FALSE,
                                              ![Len(stack)].pairs = @ + 1]
                ELSE /\ pc' = "done"
                     /\ result' = r.out
                     /\ stack' = here
    /\ UNCHANGED <<hdr, data, place, ovf>>

\* the consumer's visit_map returns, and deserialize_map finishes (555-560)
VisitMapReturn ==
    /\ pc = "visit_map"
    /\ \E ok \in BOOLEAN :
         \E r \in {IF ok THEN DeserializeMapEnd(CurD, MapValue(Top.pairs))
                    ELSE Ret(CurD, Custom, NotVisited)} :
             /\ SetD(r.d)
             /\ last' = [op |-> "map_end", visit_map_ok |-> ok, at |-> Len(taken),
                         begin |-> Top.begin, item |-> NextD(CurD).item,
                         ret |-> MapValue(Top.pairs), out |-> r.out,
                         proto |-> Top.proto]
             /\ IF r.out.kind = "Ok" /\ Len(stack) > 1
                THEN /\ pc' = pc
                     /\ result' = result
                     /\ stack' = [SubSeq(stack, 1, Len(stack) - 1)
                                     EXCEPT ![Len(stack) - 1].keyed = FALSE,
                                            ![Len(stack) - 1].pairs = @ + 1]
                ELSE IF r.out.kind = "Ok"
                THEN /\ pc' = "done"
                     /\ result' = r.out
                     /\ stack' = <<>>
                ELSE /\ pc' = "done"
                     /\ result' = r.out
                     /\ stack' = stack
    /\ UNCHANGED <<hdr, data, place, ovf>>

Init == InitWith(DeBlobs, {[buf |-> 4096, local |-> 8192]})

Next == FromRawStep \/ Deserialize \/ NextKeySeed \/ NextValueSeed \/ VisitMapReturn

\* from_raw on a blob with a valid header, decoded by a consumer
Spec == Init /\ [][Next]_vars

----------------------------------------------------------------------------
(* What the claims speak of: the header as numbers, the checks in order *)

\* a + b > c on the true (unbounded) sum of two u32
SumExceeds(a, b, c) == AddU32(a, b).over \/ GtU32(AddU32(a, b).val, c)

\* the first header check, in the documented order, that h violates
FirstViolated(h) ==
    IF FromBe(h, OffMagic) # DEVICE_TREE_MAGIC THEN "InvalidMagic"
    ELSE IF GtU32(FromBe(h, OffLastCompVersion), U32Of(SUPPORTED_VERSION))
    THEN "IncompatibleVersion"
    ELSE IF LtU32(FromBe(h, OffTotalSize), U32Of(HEADER_LEN)) THEN "HeaderTooShort"
    ELSE IF LtU32(FromBe(h, OffOffDtStruct), U32Of(HEADER_LEN)) THEN "StructureUnderflow"
    ELSE IF SumExceeds(FromBe(h, OffOffDtStruct), FromBe(h, OffSizeDtStruct),
                       FromBe(h, OffTotalSize))
    THEN "StructureOverflow"
    ELSE IF LtU32(FromBe(h, OffOffDtStrings), U32Of(HEADER_LEN)) THEN "StringUnderflow"
    ELSE "none"

\* the same names for the errors from_raw returns
ErrorName(e) ==
    IF e.error_type.tag # "StructureIndex" THEN e.error_type.tag
    ELSE (IF e.error_type.structure_or_string THEN "Structure" ELSE "String")
         \o (IF e.error_type.overflow_or_underflow THEN "Overflow" ELSE "Underflow")

\* the position, within the header, of the field each header error is about
FieldOfError(name) ==
    CASE name = "InvalidMagic" -> OffMagic
      [] name = "IncompatibleVersion" -> OffLastCompVersion
      [] name = "HeaderTooShort" -> OffTotalSize
      [] name = "StructureUnderflow" -> OffOffDtStruct
      [] name = "StructureOverflow" -> OffSizeDtStruct
      [] name = "StringUnderflow" -> OffOffDtStrings
      [] name = "StringOverflow" -> OffSizeDtStrings

\* from_raw has returned from its header validation
HeaderDecided == pc # "from_raw"

\* from_raw returned a header error
HeaderRejected == pc = "done" /\ result.kind = "Err" /\ steps = 0 /\ taken = <<>>

\* C1: a header violating one of the six checks makes from_raw fail with the
\* error of the first violated check, and no token is read.
C1_FirstViolatedCheckReported ==
    (HeaderDecided /\ FirstViolated(hdr) # "none")
        => /\ HeaderRejected
           /\ ErrorName(result) = FirstViolated(hdr)

\* no u32 sum of the header wraps and no field index underflows
NoWrap ==
    /\ place.buf >= place.local
    /\ ~AddU32(FromBe(hdr, OffOffDtStruct), FromBe(hdr, OffSizeDtStruct)).over
    /\ ~AddU32(FromBe(hdr, OffOffDtStruct), FromBe(hdr, OffSizeDtStrings)).over
    /\ ~AddU32(FromBe(hdr, OffOffDtStrings), FromBe(hdr, OffSizeDtStrings)).over

\* C2: an accepted header has off_dt_strings + size_dt_strings <= total_size,
\* and a header passing the six checks with off_dt_strings + size_dt_strings >
\* total_size is rejected with StructureIndex (string, overflow).
C2_StringRangeChecked ==
    (HeaderDecided /\ NoWrap /\ FirstViolated(hdr) = "none"
       /\ SumExceeds(FromBe(hdr, OffOffDtStrings), FromBe(hdr, OffSizeDtStrings),
                     FromBe(hdr, OffTotalSize)))
        => HeaderRejected /\ ErrorName(result) = "StringOverflow"

\* C3: the file_index of a header error is the failing field's position in
\* the header.
C3_FileIndexIsFieldOffset ==
    (HeaderRejected /\ last.op = "from_raw")
        => result.file_index = FieldOfError(ErrorName(result))

----------------------------------------------------------------------------
(* What the tokenizer claims speak of *)

\* a token or outcome without its byte offsets
Strip(i) ==
    CASE i.kind = "Begin" -> [kind |-> "Begin", name |-> i.name]
      [] i.kind = "Prop" -> [kind |-> "Prop", name |-> i.name, value |-> i.value]
      [] i.kind = "Err" -> [kind |-> "Err", tag |-> i.error_type.tag]
      [] OTHER -> [kind |-> i.kind]

\* the structure block s without the 4-byte word at offset c
WithoutWord(s, c) == SubSeq(s, 1, c) \o SubSeq(s, c + 5, Len(s))

\* the tag word at offset c of s is w
WordIs(s, c, w) == c + 3 < Len(s) /\ FromBe(s, c) = U32Of(w)

\* C5: a NOP tag word in front of a tag does not change the token read: the
\* step yields what it yields on the block without that NOP.
C5_NopTransparent ==
    (last.op = "next" /\ WordIs(Structure(tags, data), last.from, FDT_NOP))
        => Strip(last.item) =
             Strip(TagsNextOn(WithoutWord(Structure(tags, data), last.from),
                              StringTable(tags, data), last.from,
                              tags.offset_from_file_begin, ovf).item)

\* C6: no tokenizer step on a structure slice reads past the slice (which
\* aborts): a step ends in a token, the end, or a typed error.
C6_ReadsInBounds ==
    (last.op = "next" /\ tags.structure_len >= 4) => last.item.kind # "Panic"

----------------------------------------------------------------------------
(* What the deserializer claims speak of *)

\* the outcome e is the typed error named tag
IsErr(e, tag) == e.kind = "Err" /\ e.error_type.tag = tag

\* the last step called hook h, from T::deserialize or from next_value_seed
HookCalled(h) == last.op \in {"hook", "next_value"} /\ last.hook = h

\* the value the length-of-value rule hands to the visitor for a property
ByValueLength(value) ==
    IF Len(value) = 0 THEN BoolValue
    ELSE IF Len(value) = 4 THEN U32Value(value)
    ELSE BytesValue(value)

\* C4: deserialize_any on a Prop hands the visitor true for a value of length
\* 0, the big-endian u32 for a value of length 4 and the raw bytes otherwise,
\* whatever the property's name is.
C4_AnyDispatchesOnValueLength ==
    (HookCalled("any") /\ last.next.kind = "Prop")
        => /\ last.visited.type = ByValueLength(last.next.value).type
           /\ last.visited.v = ByValueLength(last.next.value).v

\* the items the tokenizer yields from the start of the structure block, up
\* to and including the first that is not a token
RECURSIVE TokenItems(_, _)
TokenItems(t, n) ==
    The({ IF IsToken(r.item) /\ n > 0
          THEN <<r.item>> \o TokenItems(r.tags, n - 1)
          ELSE <<r.item>> :
          r \in {TagsNext(t, data, ovf)} })

RefItems == TokenItems([tags EXCEPT !.cur = 0], Len(data))

Kinds(items) == [i \in 1..Len(items) |-> KindOf(items[i])]

\* the place of the End that balances the Begins from place i on, 0 if none
RECURSIVE MatchFrom(_, _, _)
MatchFrom(kinds, i, depth) ==
    IF i > Len(kinds) THEN 0
    ELSE IF kinds[i] = "Begin" THEN MatchFrom(kinds, i + 1, depth + 1)
    ELSE IF kinds[i] = "End"
    THEN IF depth = 0 THEN i ELSE MatchFrom(kinds, i + 1, depth - 1)
    ELSE IF kinds[i] = "Prop" THEN MatchFrom(kinds, i + 1, depth)
    ELSE 0

\* the place of the End matching the Begin at place p
MatchEnd(kinds, p) == MatchFrom(kinds, p + 1, 0)

\* exactly the first q items of the token sequence have been taken, and the
\* item after them is the next pending one
ConsumedUpTo(q) ==
    /\ taken = SubSeq(Kinds(RefItems), 1, q)
    /\ KindOf(PeekD(CurD).item) = KindOf(RefItems[q + 1])
    /\ PeekD(CurD).item = RefItems[q + 1]

\* the last step began inside the token sequence: all taken before it were
\* tokens (the tokenizer had not reported the end of the sequence)
InSequence == \A i \in 1..last.at : taken[i] \in {"Begin", "Prop", "End"}

\* C7: deserialize_ignored_any called at a Begin that has a matching End takes
\* that Begin, its subtree and the matching End, and nothing more; called at a
\* Prop it takes that one token.
C7_IgnoreConsumesSubtree ==
    /\ (HookCalled("ignored_any") /\ InSequence /\ last.next.kind = "Begin")
          => \A q \in {MatchEnd(Kinds(RefItems), last.at + 1)} :
                 q # 0 => /\ last.out.kind = "Ok" \/ IsErr(last.out, "Custom")
                          /\ ConsumedUpTo(q)
    /\ (HookCalled("ignored_any") /\ InSequence /\ last.next.kind = "Prop")
          => /\ last.out.kind = "Ok" \/ IsErr(last.out, "Custom")
             /\ ConsumedUpTo(last.at + 1)

\* the ignore hook skipped a node holding a node holding a node
C7_Witness ==
    /\ HookCalled("ignored_any")
    /\ InSequence
    /\ last.next.kind = "Begin"
    /\ last.out.kind = "Ok"
    /\ Len(taken) >= last.at + 6
    /\ \A i \in 1..3 : taken[last.at + i] = "Begin"
    /\ taken[Len(taken)] = "End"

\* C8: deserialize_map and deserialize_struct take the next token and fail
\* with ExpectStructBegin unless it is Begin; after visit_map they take one
\* more token, return the consumer's value if it is End and fail with
\* ExpectStructEnd if it is Begin, Prop or the end of the sequence.
C8_MapHookExpectsBeginAndEnd ==
    /\ (HookCalled("map") \/ HookCalled("struct"))
          => /\ Len(taken) = last.at + 1
             /\ last.next.kind = "Begin" => last.out.kind = "Enter"
             /\ last.next.kind \in {"Prop", "End", "None"}
                   => IsErr(last.out, "ExpectStructBegin")
    /\ (last.op = "map_end" /\ last.visit_map_ok)
          => /\ Len(taken) = last.at + 1
             /\ last.item.kind = "End"
                   => last.out.kind = "Ok" /\ last.out.value = last.ret
             /\ last.item.kind \in {"Begin", "Prop", "None"}
                   => IsErr(last.out, "ExpectStructEnd")

\* visit_map returned in front of a Prop, and the map hook failed
C8_Witness ==
    /\ last.op = "map_end"
    /\ last.visit_map_ok
    /\ last.item.kind = "Prop"
    /\ IsErr(last.out, "ExpectStructEnd")
    /\ IsErr(result, "ExpectStructEnd")

\* the tokenizer has yielded TagEofUnexpected to the Peekable
TagEofYielded ==
    \/ peeked.has /\ IsErr(peeked.item, "TagEofUnexpected")
    \/ \E i \in 1..Len(taken) : taken[i] = "TagEofUnexpected"

\* C9: once the tokenizer yields TagEofUnexpected inside a map, the decode
\* call is over and its result is that error.
C9_TagEofPropagates ==
    (stack # <<>> /\ TagEofYielded)
        => pc = "done" /\ IsErr(result, "TagEofUnexpected")

\* the structure block ran out inside a map nested in a map
C9_Witness ==
    /\ Len(stack) >= 2
    /\ TagEofYielded
    /\ pc = "done"
    /\ IsErr(result, "TagEofUnexpected")

\* the blob under decoding is the minimal one
IsMinimal == hdr = MinimalBlob.hdr /\ data = MinimalBlob.data

\* C10: on header + Begin("") + End + END(9) the header is accepted, the map
\* hook enters the node, next_key_seed reports no key, and the map hook
\* returns the consumer's value of zero pairs as the result of from_raw.
C10_MinimalBlobDecodes ==
    IsMinimal
        => /\ last.op = "from_raw" => pc = "deserialize"
           /\ (HookCalled("map") \/ HookCalled("struct")) => last.out.kind = "Enter"
           /\ last.op = "next_key"
                 => last.out.kind = "Ok" /\ last.out.value.type = "nokey"
           /\ (last.op = "map_end" /\ last.visit_map_ok)
                 => /\ pc = "done"
                    /\ result.kind = "Ok"
                    /\ result.value = MapValue(0)

\* the minimal blob decoded into the empty map
C10_Witness ==
    /\ IsMinimal
    /\ last.op = "map_end"
    /\ pc = "done"
    /\ result.kind = "Ok"
    /\ result.value = MapValue(0)

----------------------------------------------------------------------------
(* What the scalar hook claims speak of *)

\* the last hook call ended in a value or in the visitor's own error
Decoded == last.out.kind = "Ok" \/ IsErr(last.out, "Custom")

\* C11: deserialize_bool on a Prop with a value of non-zero length returns an
\* error to its caller, without aborting and without a boolean; on a Prop with
\* an empty value it hands the visitor true and takes exactly that token.
C11_BoolHookDecodesOrFails ==
    (HookCalled("bool") /\ last.next.kind = "Prop")
        => IF Len(last.next.value) = 0
           THEN /\ Decoded
                /\ last.visited.type = "bool"
                /\ last.visited.v = TRUE
                /\ Len(taken) = last.at + 1
           ELSE /\ last.out.kind = "Err"
                /\ last.visited.type = "none"

\* C12: deserialize_u32 on a Prop with a value of exactly 4 bytes b0 b1 b2 b3
\* hands the visitor b0*2^24 + b1*2^16 + b2*2^8 + b3 and takes exactly that
\* token; on a value of any other length it fails with InvalidSerdeTypeLength
\* (expected_length 4) and takes nothing.
C12_U32HookDecodesBigEndian ==
    (HookCalled("u32") /\ last.next.kind = "Prop")
        => IF Len(last.next.value) = 4
           THEN /\ Decoded
                /\ last.visited.type = "u32"
                /\ last.visited.v.hi = last.next.value[1] * 256 + last.next.value[2]
                /\ last.visited.v.lo = last.next.value[3] * 256 + last.next.value[4]
                /\ Len(taken) = last.at + 1
           ELSE /\ IsErr(last.out, "InvalidSerdeTypeLength")
                /\ last.out.error_type.expected_length = 4
                /\ last.visited.type = "none"
                /\ Len(taken) = last.at

\* the u32 hook decoded the value 00 00 01 02 as 258
C12_Witness ==
    /\ HookCalled("u32")
    /\ last.next.kind = "Prop"
    /\ last.next.value = <<0, 0, 1, 2>>
    /\ last.out.kind = "Ok"
    /\ last.visited.v = U32Of(258)
    /\ Len(taken) = last.at + 1

----------------------------------------------------------------------------
(* What the PROP claims speak of: the last tokenizer step, read off the bytes *)

\* the structure slice and the string table the tokenizer walks
CurStructure == Structure(tags, data)

CurStringTable == StringTable(tags, data)

\* the last step began at a PROP tag id whose two header words lie in the slice
PropStep ==
    /\ last.op = "next"
    /\ WordIs(CurStructure, last.from, FDT_PROP)
    /\ last.from + 12 <= Len(CurStructure)

\* the declared value length L and name offset of that PROP, and the number R
\* of bytes of the slice after its two header words
PropLen == ToUsize(FromBe(CurStructure, last.from + 4))

PropNameOff == ToUsize(FromBe(CurStructure, last.from + 8))

PropRemaining == Len(CurStructure) - (last.from + 12)

\* the string table holds a NUL at or after offset o
HasNulFrom(o) == \E i \in (o + 1)..Len(CurStringTable) : CurStringTable[i] = 0

\* name is the bytes of the string table from offset o up to the first NUL
IsNameAt(name, o) ==
    /\ o + Len(name) < Len(CurStringTable)
    /\ name = SubSeq(CurStringTable, o + 1, o + Len(name))
    /\ \A i \in 1..Len(name) : name[i] # 0
    /\ CurStringTable[o + Len(name) + 1] = 0

\* C13: a PROP whose name offset is at or past the end of the string table, or
\* inside it with no NUL up to its end, fails with TableStringOffset with
\* bound_offset the table length; otherwise the name is the bytes from the
\* offset up to the first NUL, unaligned.
C13_TableStringResolved ==
    (PropStep /\ PropLen <= PropRemaining)
        => IF PropNameOff >= Len(CurStringTable) \/ ~HasNulFrom(PropNameOff)
           THEN /\ IsErr(last.item, "TableStringOffset")
                /\ last.item.error_type.bound_offset = Len(CurStringTable)
           ELSE /\ last.item.kind = "Prop"
                /\ IsNameAt(last.item.name, PropNameOff)

\* a name offset inside a string table that holds no NUL after it
C13_Witness ==
    /\ PropStep
    /\ PropLen <= PropRemaining
    /\ PropNameOff < Len(CurStringTable)
    /\ ~HasNulFrom(PropNameOff)
    /\ IsErr(last.item, "TableStringOffset")
    /\ last.item.error_type.bound_offset = Len(CurStringTable)

\* C14: a PROP whose declared value length L exceeds the R bytes left after
\* its two header words fails with SliceEofUnexpected (expected_length L,
\* remaining_length R) and yields no Prop.
C14_SliceEofReported ==
    (PropStep /\ PropLen > PropRemaining)
        => /\ IsErr(last.item, "SliceEofUnexpected")
           /\ ToUsize(last.item.error_type.expected_length) = PropLen
           /\ last.item.error_type.remaining_length = PropRemaining

\* a PROP declaring 9 value bytes with at most 4 left
C14_Witness ==
    /\ PropStep
    /\ PropLen = 9
    /\ PropRemaining <= 4
    /\ IsErr(last.item, "SliceEofUnexpected")
    /\ last.item.error_type.remaining_length = PropRemaining

----------------------------------------------------------------------------
(* What the claims on the step's start, end and offsets speak of *)

\* C15: a tokenizer step that starts with fewer than 4 bytes between the
\* cursor and the end of the structure slice, or that continues after a NOP
\* with fewer than 4 bytes left, yields TagEofUnexpected (current_index the
\* cursor, bound_index the slice length).
C15_TagEofAtStepStart ==
    /\ (last.op = "next" /\ Len(CurStructure) - last.from < 4)
          => /\ IsErr(last.item, "TagEofUnexpected")
             /\ last.item.error_type.current_index = last.from
             /\ last.item.error_type.bound_index = Len(CurStructure)
    /\ (last.op = "next" /\ WordIs(CurStructure, last.from, FDT_NOP)
          /\ Len(CurStructure) - (last.from + 4) < 4)
          => /\ IsErr(last.item, "TagEofUnexpected")
             /\ last.item.error_type.current_index = last.from + 4
             /\ last.item.error_type.bound_index = Len(CurStructure)

\* C16: after the tokenizer has reported the end of the sequence, whatever
\* is taken or peeked later is again "no more tokens".
C16_EndIsFinal ==
    \A i \in 1..Len(taken) :
        taken[i] = "None"
            => /\ \A j \in (i + 1)..Len(taken) : taken[j] = "None"
               /\ peeked.has => peeked.item.kind = "None"

\* the tag id word that begins a token of each kind
TagIdOf(kind) ==
    CASE kind = "Begin" -> FDT_BEGIN_NODE
      [] kind = "Prop" -> FDT_PROP
      [] kind = "End" -> FDT_END_NODE

\* off_dt_struct + the cursor position c within the structure slice
AbsoluteOffset(c) == ToUsize(FromBe(hdr, OffOffDtStruct)) + c

\* C17: the offset paired with a token is the absolute offset, from the start
\* of the blob, of the token's tag id, and the file_index of a TagEofUnexpected
\* raised at the start of a step is the absolute offset of the cursor.
C17_OffsetsAreAbsolute ==
    /\ (last.op = "next" /\ IsToken(last.item)
          /\ WordIs(CurStructure, last.from, TagIdOf(last.item.kind)))
          => last.item.index = AbsoluteOffset(last.from)
    /\ (last.op = "next" /\ IsErr(last.item, "TagEofUnexpected"))
          => last.item.file_index = AbsoluteOffset(last.from)

----------------------------------------------------------------------------
(* What the alignment claim speaks of *)

\* r is the least multiple of 4 that is >= x
LeastMultipleOf4(r, x) == r % 4 = 0 /\ r >= x /\ r - x < 4

\* align_up_u32 rounds up to the next multiple of 4 and is idempotent, on
\* every cursor value the slice allows
AlignRoundsUp ==
    \A x \in 0..(Len(CurStructure) + 4) :
        /\ align_up_u32(x) = x + ((4 - (x % 4)) % 4)
        /\ LeastMultipleOf4(align_up_u32(x), x)
        /\ align_up_u32(align_up_u32(x)) = align_up_u32(x)

\* the extra bytes skipped after data that ended at position e: 0 on a 4-byte
\* boundary, 3, 2 or 1 when it ended 1, 2 or 3 bytes past one
PaddingAfter(e) ==
    CASE e % 4 = 0 -> 0
      [] e % 4 = 1 -> 3
      [] e % 4 = 2 -> 2
      [] e % 4 = 3 -> 1

\* the last step yielded a token whose tag id stood at the cursor
TokenAtCursor ==
    /\ last.op = "next"
    /\ IsToken(last.item)
    /\ WordIs(CurStructure, last.from, TagIdOf(last.item.kind))

\* after a Begin name with its NUL, or a Prop value, the cursor has moved on
\* by the padding that the end of the data calls for
PaddingSkipped ==
    /\ (TokenAtCursor /\ last.item.kind = "Begin")
          => \A e \in {last.from + 4 + Len(last.item.name) + 1} :
                 tags.cur = e + PaddingAfter(e)
    /\ (TokenAtCursor /\ last.item.kind = "Prop")
          => \A e \in {last.from + 12 + Len(last.item.value)} :
                 tags.cur = e + PaddingAfter(e)

\* C18 as stated: align_up_u32 rounds up to a multiple of 4, the padding
\* after a name or a value is 0, 3, 2 or 1 bytes, and the cursor is a multiple
\* of 4 at the start of every tokenizer step.
C18_CursorAlignedAtEveryStep ==
    /\ AlignRoundsUp
    /\ PaddingSkipped
    /\ last.op = "next" => last.from % 4 = 0

\* C18 amended: the same, with the cursor a multiple of 4 at the start of
\* every tokenizer step except after a failed step: the scan of a name that
\* no NUL ends leaves the cursor at the end of the slice, whatever its length.
C18_CursorAlignedUnlessStepFailed ==
    /\ AlignRoundsUp
    /\ PaddingSkipped
    /\ tags.cur % 4 # 0
          => /\ last.op = "next"
             /\ last.item.kind = "Err"
             /\ tags.cur = Len(CurStructure)

\* a Prop value of 1 byte, followed by 3 bytes of padding
C18_Witness ==
    /\ TokenAtCursor
    /\ last.item.kind = "Prop"
    /\ Len(last.item.value) = 1
    /\ tags.cur = last.from + 16

----------------------------------------------------------------------------
(* What the claim on the Map-Access Bridge speaks of *)

\* the tokens taken from place p to place q are one Begin ... End span
BalancedSpan(p, q) == p >= 1 /\ p <= q /\ taken[p] = "Begin" /\ MatchEnd(taken, p) = q

\* next_key_seed took nothing, and what it peeked is still pending
KeyLeftPending ==
    /\ Len(taken) = last.at
    /\ last.out.kind = "Ok"
          => /\ peeked.has
             /\ KindOf(peeked.item) = KindOf(last.next)
             /\ peeked.item = last.next
             /\ last.out.value.type = "key" => last.next.kind \in {"Prop", "Begin"}
             /\ last.out.value.type = "nokey" => last.next.kind = "End"

\* C19: next_key_seed takes no token: the Prop or Begin it returned a key
\* for, or the End it reported no more pairs at, stays pending.  A value
\* decoded on a Prop takes exactly one token, and a value decoded on a Begin
\* by the ignore hook or the map hook takes exactly the span from that Begin
\* to its matching End.
C19_OnlyValueDecodeConsumes ==
    /\ last.op = "next_key" => KeyLeftPending
    /\ (last.op = "next_value" /\ last.out.kind = "Ok" /\ last.next.kind = "Prop")
          => Len(taken) = last.at + 1
    /\ (last.op = "next_value" /\ last.hook = "ignored_any" /\ last.out.kind = "Ok"
          /\ last.next.kind = "Begin")
          => BalancedSpan(last.at + 1, Len(taken))
    /\ (last.op = "map_end" /\ last.out.kind = "Ok")
          => BalancedSpan(last.begin, Len(taken))

----------------------------------------------------------------------------
(* What the claim on the structure-range arithmetic speaks of *)

\* the two header fields whose sum the structure-range check decides on
SumWraps == AddU32(FromBe(hdr, OffOffDtStruct), FromBe(hdr, OffSizeDtStruct)).over

\* C20: a header that passes the checks before the structure-range check and
\* whose off_dt_struct + size_dt_struct is 2^32 or more is rejected with
\* StructureIndex (structure, overflow): it is neither accepted nor aborted on.
C20_StructRangeOnTrueSum ==
    (HeaderDecided /\ FirstViolated(hdr) = "StructureOverflow" /\ SumWraps
       /\ place.buf >= place.local)
        => /\ HeaderRejected
           /\ ErrorName(result) = "StructureOverflow"

----------------------------------------------------------------------------
(* What the claim on the ignore hook's failures speaks of *)

\* the node whose Begin is the next token of the last step is never closed:
\* the token sequence ends, or yields an error, before the matching End
NodeUnclosed == MatchEnd(Kinds(RefItems), last.at + 1) = 0

\* C21: deserialize_ignored_any called at a Begin hands the visitor the unit
\* only after it took the End matching that Begin; when the token sequence
\* ends or yields an error before that End, it returns an error and the
\* visitor is not called.
C21_IgnoreFailsOnUnclosedNode ==
    (HookCalled("ignored_any") /\ InSequence /\ last.next.kind = "Begin")
        => /\ last.visited.type = "unit" => BalancedSpan(last.at + 1, Len(taken))
           /\ NodeUnclosed => last.out.kind = "Err" /\ last.visited.type = "none"

----------------------------------------------------------------------------
(* What the claim on the protocol-violation branches speaks of *)

\* the hooks a value seed of the map protocol decodes through
ProtocolHooks == {"any", "ignored_any", "bool", "u32", "str", "bytes", "map", "struct"}

\* the last step is a next_value_seed of a consumer that has called it only
\* right after a next_key_seed that returned a key
ValueAfterKey == last.op = "next_value" /\ last.proto

\* C22: when the consumer calls next_value_seed only right after a
\* next_key_seed that returned a key, next_value_seed never finds End as the
\* current token, and the hook it hands the token to (deserialize_any and
\* deserialize_ignored_any among them) is called on the Prop or Begin the key
\* was read from, never on End.
C22_EndBranchesUnreached ==
    ValueAfterKey
        => /\ last.next.kind # "End"
           /\ last.hook \in ProtocolHooks => last.next.kind \in {"Prop", "Begin"}
           /\ (last.hook = "ignored_any" /\ last.next.kind = "Prop")
                 => last.out.kind # "Panic"

\* inside a node nested in a node, a value was decoded through deserialize_any
\* right after its key
C22_Witness ==
    /\ ValueAfterKey
    /\ Len(stack) >= 2
    /\ last.hook = "any"
    /\ last.next.kind = "Prop"
    /\ last.out.kind = "Ok"

----------------------------------------------------------------------------
(* What the claim on termination speaks of *)

\* the last step was a call of Tags::next on a structure slice of 4 bytes or more
StepOnSlice == last.op = "next" /\ Len(CurStructure) >= 4

\* the call ended the way a walk of the token sequence may end or go on:
\* with a token, with the end of the sequence, or with a typed error
StepReturned == IsToken(last.item) \/ last.item.kind \in {"None", "Err"}

\* C23: on a structure slice of 4 bytes or more a call of Tags::next never
\* moves the cursor back, moves it on by 4 bytes or more when it yields a
\* token, and returns a token, the end of the sequence or a typed error, so
\* that a walk by repeated calls ends at END(9) or at a typed error.
C23_TokenizerAdvancesAndReturns ==
    StepOnSlice
        => /\ tags.cur >= last.from
           /\ IsToken(last.item) => tags.cur >= last.from + 4
           /\ StepReturned

----------------------------------------------------------------------------
(* What the claim on the span of a decoded map speaks of *)

\* the number of tokens of kind k taken from place p to place q
Count(k, p, q) == Cardinality({i \in p..q : taken[i] = k})

\* deserialize_map has returned Ok to a consumer that called next_value_seed
\* only right after a key
MapDecoded == last.op = "map_end" /\ last.out.kind = "Ok" /\ last.proto

\* C24: when deserialize_map returns Ok, the tokens taken since its Begin hold
\* as many Ends as Begins, the End taken last is the first place where they
\* balance, and the token pending next is the one that follows that End in
\* the token sequence.
C24_MapConsumesOneSpan ==
    MapDecoded
        => /\ taken[last.begin] = "Begin"
           /\ Count("End", last.begin, Len(taken)) = Count("Begin", last.begin, Len(taken))
           /\ MatchEnd(taken, last.begin) = Len(taken)
           /\ ConsumedUpTo(Len(taken))

============================================================================
